---------------------------- MODULE Spec2Model ----------------------------
(***************************************************************************)
(* A model of async-stream-connection: the Addr / Listener / Stream enums  *)
(* over TCP and Unix-domain sockets (src/src/addr.rs, listener.rs,         *)
(* stream.rs).  The operating system's sockets, the filesystem name space  *)
(* and the name resolver are the environment the three types delegate to.  *)
(***************************************************************************)
EXTENDS Naturals, Sequences, FiniteSets, TLC

(***************************************************************************)
(* Bounds of the model.                                                    *)
(***************************************************************************)
MaxListeners == 2
MaxLen == 3
LifeLen == 1
BufCap == 2
MaxRead == 2
MaxTextLen == 3
MaxGroups == 2
MaxAnswers == 2

ListenerIds == 1..MaxListeners

\* One connection at a time: its connecting end and its accepted end.
StreamIds == {1, 2}

Min(a, b) == IF a < b THEN a ELSE b

Take(s, n) == SubSeq(s, 1, n)

Drop(s, n) == SubSeq(s, n + 1, Len(s))

IsPrefix(p, s) == Len(p) <= Len(s) /\ SubSeq(s, 1, Len(p)) = p

(***************************************************************************)
(* Text.  A character is a one-token string; a PathBuf holds the bytes of  *)
(* its text (UTF-8).  U+00E9 is a two-byte character, U+FFFD the           *)
(* replacement character of a lossy decoding.                              *)
(***************************************************************************)
Ascii ==
    [c \in {"/", ".", ":", "[", "]", "0", "1", "2", "3", "4", "5", "6", "7", "8",
            "9", "A", "B", "C", "D", "E", "F", "a", "b", "c", "d", "e", "f",
            "m", "n", "u", "x"} |->
        CASE c = "/" -> 47 [] c = "." -> 46 [] c = ":" -> 58 [] c = "[" -> 91
          [] c = "]" -> 93 [] c = "0" -> 48 [] c = "1" -> 49 [] c = "2" -> 50
          [] c = "3" -> 51 [] c = "4" -> 52 [] c = "5" -> 53 [] c = "6" -> 54
          [] c = "7" -> 55 [] c = "8" -> 56 [] c = "9" -> 57 [] c = "A" -> 65
          [] c = "B" -> 66 [] c = "C" -> 67 [] c = "D" -> 68 [] c = "E" -> 69
          [] c = "F" -> 70 [] c = "a" -> 97 [] c = "b" -> 98 [] c = "c" -> 99
          [] c = "d" -> 100 [] c = "e" -> 101 [] c = "f" -> 102 [] c = "m" -> 109
          [] c = "n" -> 110 [] c = "u" -> 117 [] c = "x" -> 120]

\* str::as_bytes of one character.
CharBytes(c) ==
    IF c \in DOMAIN Ascii THEN <<Ascii[c]>>
    ELSE IF c = "U+00E9" THEN <<195, 169>>
    ELSE <<239, 191, 189>>

RECURSIVE EncodeUtf8(_)
\* PathBuf::from(&str): the bytes of the text, unchanged.
EncodeUtf8(t) ==
    IF t = <<>> THEN <<>> ELSE CharBytes(Head(t)) \o EncodeUtf8(Tail(t))

RECURSIVE ToStringLossyAscii(_)
ToStringLossyAscii(b) ==
    IF b = <<>> THEN <<>>
    ELSE IF \E c \in DOMAIN Ascii : Ascii[c] = b[1]
    THEN <<CHOOSE c \in DOMAIN Ascii : Ascii[c] = b[1]>> \o ToStringLossyAscii(Tail(b))
    ELSE <<"U+FFFD">> \o ToStringLossyAscii(Tail(b))

RECURSIVE ToStringLossy(_)
\* Path::to_string_lossy: valid sequences decode to their character, any
\* other byte to U+FFFD.
ToStringLossy(b) ==
    IF b = <<>> THEN <<>>
    ELSE IF Len(b) >= 2 /\ b[1] = 195 /\ b[2] = 169
    THEN <<"U+00E9">> \o ToStringLossy(Drop(b, 2))
    ELSE IF Len(b) >= 3 /\ b[1] = 239 /\ b[2] = 191 /\ b[3] = 189
    THEN <<"U+FFFD">> \o ToStringLossy(Drop(b, 3))
    ELSE IF \E c \in DOMAIN Ascii : Ascii[c] = b[1]
    THEN <<CHOOSE c \in DOMAIN Ascii : Ascii[c] = b[1]>> \o ToStringLossy(Tail(b))
    ELSE <<"U+FFFD">> \o ToStringLossy(Tail(b))

(***************************************************************************)
(* Addresses.  Addr is the crate's enum; a native address is what the      *)
(* operating system reports for a socket.                                  *)
(***************************************************************************)
\* The absent IP endpoint of a Unix address.
NoSock == [ip |-> <<>>, port |-> 0]

AddrInet(sa) == [tag |-> "Inet", sa |-> sa, path |-> <<>>]

AddrUnix(p) == [tag |-> "Unix", sa |-> NoSock, path |-> p]

NoAddr == [tag |-> "-", sa |-> NoSock, path |-> <<>>]

\* A native socket address: an IP endpoint, or a Unix address that is
\* unnamed, a pathname or (Linux) an abstract name.
NativeInet(sa) == [kind |-> "inet", sa |-> sa, path |-> <<>>]

NativePath(p) == [kind |-> "pathname", sa |-> NoSock, path |-> p]

NativeAbstract(n) == [kind |-> "abstract", sa |-> NoSock, path |-> n]

NativeUnnamed == [kind |-> "unnamed", sa |-> NoSock, path |-> <<>>]

NoNative == [kind |-> "-", sa |-> NoSock, path |-> <<>>]

\* Path::new("unnamed")
UnnamedPath == EncodeUtf8(<<"u", "n", "n", "a", "m", "e", "d">>)

\* SocketAddr::as_pathname: Some(path) only for a pathname address.
AsPathname(a) ==
    IF a.kind = "pathname" THEN [some |-> TRUE, path |-> a.path]
    ELSE [some |-> FALSE, path |-> <<>>]

FromUnixSocketAddrEmpty(a) ==
    AddrUnix(IF AsPathname(a).some THEN AsPathname(a).path ELSE <<>>)

\* impl From<unix::SocketAddr> for Addr, and the same for tokio's type.
FromUnixSocketAddr(a) ==
    AddrUnix(IF AsPathname(a).some THEN AsPathname(a).path ELSE UnnamedPath)

\* impl From<net::SocketAddr> for Addr
FromInetSocketAddr(sa) == AddrInet(sa)


(***************************************************************************)
(* Numeric address text, as the standard library reads and writes it       *)
(* (str::parse::<SocketAddr> and Display of SocketAddr).  An IPv4 address  *)
(* is its four octets, an IPv6 address its eight 16-bit groups.  Scope ids *)
(* ("%") are outside the texts considered.                                 *)
(***************************************************************************)
HexDigits == <<"0", "1", "2", "3", "4", "5", "6", "7", "8", "9",
               "a", "b", "c", "d", "e", "f">>

\* char::to_digit(16)
DigitVal ==
    [c \in {"0", "1", "2", "3", "4", "5", "6", "7", "8", "9", "A", "B", "C", "D",
            "E", "F", "a", "b", "c", "d", "e", "f"} |->
        IF \E k \in 1..16 : HexDigits[k] = c
        THEN (CHOOSE k \in 1..16 : HexDigits[k] = c) - 1
        ELSE CASE c = "A" -> 10 [] c = "B" -> 11 [] c = "C" -> 12
               [] c = "D" -> 13 [] c = "E" -> 14 [] c = "F" -> 15]

\* The index of the first c in t, 0 when there is none.
IndexOf(t, c) ==
    IF \E k \in 1..Len(t) : t[k] = c
    THEN CHOOSE k \in 1..Len(t) : t[k] = c /\ \A j \in 1..(k - 1) : t[j] # c
    ELSE 0

\* The index of the last c in t, 0 when there is none.
LastIndexOf(t, c) ==
    IF \E k \in 1..Len(t) : t[k] = c
    THEN CHOOSE k \in 1..Len(t) : t[k] = c /\ \A j \in (k + 1)..Len(t) : t[j] # c
    ELSE 0

RECURSIVE Split(_, _)
\* The parts of t between the separators c.
Split(t, c) ==
    IF IndexOf(t, c) = 0 THEN <<t>>
    ELSE <<Take(t, IndexOf(t, c) - 1)>> \o Split(Drop(t, IndexOf(t, c)), c)

RECURSIVE Join(_, _)
Join(parts, sep) ==
    IF parts = <<>> THEN <<>>
    ELSE IF Len(parts) = 1 THEN parts[1]
    ELSE parts[1] \o sep \o Join(Tail(parts), sep)

IsDigits(t, radix) ==
    /\ t # <<>>
    /\ \A k \in 1..Len(t) : t[k] \in DOMAIN DigitVal /\ DigitVal[t[k]] < radix

RECURSIVE NumVal(_, _)
NumVal(t, radix) ==
    IF t = <<>> THEN 0
    ELSE NumVal(Take(t, Len(t) - 1), radix) * radix + DigitVal[t[Len(t)]]

NoNum == [some |-> FALSE, val |-> 0]

RECURSIVE Significant(_)
\* The digits of t from its first non-zero digit on.
Significant(t) ==
    IF t = <<>> \/ t[1] # "0" THEN t ELSE Significant(Tail(t))

\* The value n when it fits the type read.
Fits(n, maxVal) == IF n <= maxVal THEN [some |-> TRUE, val |-> n] ELSE NoNum

\* The value of significant digits; more than five of them fit none of the
\* types read here.
NumOf(digits, radix, maxVal) ==
    IF Len(digits) <= 5 THEN Fits(NumVal(digits, radix), maxVal) ELSE NoNum

\* Parser::read_number on a whole token: at least one digit, at most
\* maxDigits of them (0: no limit), no zero prefix unless allowed, and a
\* value that fits the type.
ReadNumber(t, radix, maxDigits, allowZeroPrefix, maxVal) ==
    IF /\ IsDigits(t, radix)
       /\ (maxDigits = 0 \/ Len(t) <= maxDigits)
       /\ (allowZeroPrefix \/ Len(t) = 1 \/ t[1] # "0")
    THEN NumOf(Significant(t), radix, maxVal)
    ELSE NoNum

NoIp == [some |-> FALSE, ip |-> <<>>]

\* The address of four octets, when all four were read.
AllOctets(octs) ==
    IF \A k \in 1..4 : octs[k].some
    THEN [some |-> TRUE, ip |-> [k \in 1..4 |-> octs[k].val]]
    ELSE NoIp

Octets(parts) ==
    IF Len(parts) = 4
    THEN AllOctets([k \in 1..4 |-> ReadNumber(parts[k], 10, 3, FALSE, 255)])
    ELSE NoIp

\* Parser::read_ipv4_addr: four decimal octets without zero prefix.
ReadIpv4Addr(t) == Octets(Split(t, "."))

NoGroups == [some |-> FALSE, groups |-> <<>>, ipv4 |-> FALSE]

SomeGroups(g, v4) == [some |-> TRUE, groups |-> g, ipv4 |-> v4]

\* One group read, then the groups after it.
ConsGroup(g, rest) ==
    IF g.some /\ rest.some THEN SomeGroups(<<g.val>> \o rest.groups, rest.ipv4)
    ELSE NoGroups

\* The two groups of an embedded IPv4 address.
Ipv4Groups(o) == <<o[1] * 256 + o[2], o[3] * 256 + o[4]>>

RECURSIVE ReadParts(_, _, _)
RECURSIVE PartGroups(_, _, _, _)
\* The groups of the parts from the i-th on: an embedded IPv4 address ends
\* them, any other part is one hexadecimal group.
PartGroups(parts, i, limit, v4) ==
    IF v4.some
    THEN IF i = Len(parts) THEN SomeGroups(Ipv4Groups(v4.ip), TRUE) ELSE NoGroups
    ELSE ConsGroup(ReadNumber(parts[i], 16, 4, TRUE, 65535),
                   ReadParts(parts, i + 1, limit))

\* An embedded IPv4 address is tried only where two slots are left.
ReadParts(parts, i, limit) ==
    IF i > Len(parts) THEN SomeGroups(<<>>, FALSE)
    ELSE IF i > limit THEN NoGroups
    ELSE PartGroups(parts, i, limit,
                    IF i < limit THEN ReadIpv4Addr(parts[i]) ELSE NoIp)

AtMost(r, limit) == IF r.some /\ Len(r.groups) <= limit THEN r ELSE NoGroups

\* read_groups of Parser::read_ipv6_addr into at most limit slots.
ReadGroups(t, limit) ==
    IF t = <<>> THEN SomeGroups(<<>>, FALSE)
    ELSE AtMost(ReadParts(Split(t, ":"), 1, limit), limit)

\* The index of the first "::" in t, 0 when there is none.
IndexOfGap(t) ==
    IF \E k \in 1..(Len(t) - 1) : t[k] = ":" /\ t[k + 1] = ":"
    THEN CHOOSE k \in 1..(Len(t) - 1) :
             /\ t[k] = ":" /\ t[k + 1] = ":"
             /\ \A j \in 1..(k - 1) : ~(t[j] = ":" /\ t[j + 1] = ":")
    ELSE 0

\* All eight groups, without "::".
FullGroups(all) ==
    IF all.some /\ Len(all.groups) = 8 THEN [some |-> TRUE, ip |-> all.groups]
    ELSE NoIp

\* The groups before "::", zeroes, and the groups after it.
GappedGroups(head, tail) ==
    IF ~tail.some THEN NoIp
    ELSE [some |-> TRUE,
          ip |-> head \o [k \in 1..(8 - Len(head) - Len(tail.groups)) |-> 0]
                      \o tail.groups]

\* No IPv4 part before "::", which stands for at least one group.
AfterHead(head, rest) ==
    IF ~head.some \/ head.ipv4 \/ Len(head.groups) = 8 THEN NoIp
    ELSE GappedGroups(head.groups, ReadGroups(rest, 7 - Len(head.groups)))

ReadAround(t, gap) ==
    IF gap = 0 THEN FullGroups(ReadGroups(t, 8))
    ELSE AfterHead(ReadGroups(Take(t, gap - 1), 8), Drop(t, gap + 1))

\* Parser::read_ipv6_addr: eight groups, or the groups before and after
\* one "::".
ReadIpv6Addr(t) == ReadAround(t, IndexOfGap(t))

NoSockAddr == [some |-> FALSE, sa |-> NoSock]

Endpoint(ip, port) ==
    IF ip.some /\ port.some
    THEN [some |-> TRUE, sa |-> [ip |-> ip.ip, port |-> port.val]]
    ELSE NoSockAddr

V4At(t, c) ==
    IF c = 0 THEN NoSockAddr
    ELSE Endpoint(ReadIpv4Addr(Take(t, c - 1)),
                  ReadNumber(Drop(t, c), 10, 0, TRUE, 65535))

\* Parser::read_socket_addr_v4: ip ":" port
ReadSocketAddrV4(t) == V4At(t, IndexOf(t, ":"))

V6At(t, c) ==
    IF c > 0 /\ t[1] = "[" /\ Len(t) > c /\ t[c + 1] = ":"
    THEN Endpoint(ReadIpv6Addr(SubSeq(t, 2, c - 1)),
                  ReadNumber(Drop(t, c + 1), 10, 0, TRUE, 65535))
    ELSE NoSockAddr

\* Parser::read_socket_addr_v6: "[" ip "]" ":" port
ReadSocketAddrV6(t) == V6At(t, IndexOf(t, "]"))

OrElse(a, b) == IF a.some THEN a ELSE b

\* str::parse::<SocketAddr>
ParseSocketAddr(t) == OrElse(ReadSocketAddrV4(t), ReadSocketAddrV6(t))

RECURSIVE FmtNumber(_, _)
\* A number in the given radix, lower case, without zero prefix.
FmtNumber(n, radix) ==
    IF n < radix THEN <<HexDigits[n + 1]>>
    ELSE FmtNumber(n \div radix, radix) \o <<HexDigits[(n % radix) + 1]>>

\* Display of Ipv4Addr
FmtIpv4Addr(ip) == Join([k \in 1..4 |-> FmtNumber(ip[k], 10)], <<".">>)

FmtGroups(g) == Join([k \in 1..Len(g) |-> FmtNumber(g[k], 16)], <<":">>)

RECURSIVE ZeroRun(_, _)
\* The number of zero groups in a row from the s-th on.
ZeroRun(g, s) == IF s > Len(g) \/ g[s] # 0 THEN 0 ELSE 1 + ZeroRun(g, s + 1)

\* Where the first longest run of zero groups starts.
LongestRun(g) ==
    CHOOSE a \in 1..8 :
        /\ \A b \in 1..8 : ZeroRun(g, b) <= ZeroRun(g, a)
        /\ \A b \in 1..(a - 1) : ZeroRun(g, b) < ZeroRun(g, a)

\* A run of two or more zero groups is written as "::".
FmtAround(g, s, n) ==
    IF n > 1
    THEN FmtGroups(Take(g, s - 1)) \o <<":", ":">> \o FmtGroups(Drop(g, s - 1 + n))
    ELSE FmtGroups(g)

FmtCompressed(g, s) == FmtAround(g, s, ZeroRun(g, s))

\* Display of Ipv6Addr: an IPv4-mapped address shows its IPv4 part; any
\* other address has its first longest run of zero groups compressed.
FmtIpv6Addr(g) ==
    IF (\A k \in 1..5 : g[k] = 0) /\ g[6] = 65535
    THEN <<":", ":", "f", "f", "f", "f", ":">>
             \o FmtIpv4Addr(<<g[7] \div 256, g[7] % 256, g[8] \div 256, g[8] % 256>>)
    ELSE FmtCompressed(g, LongestRun(g))

\* Display of SocketAddr
FmtSocketAddr(sa) ==
    IF Len(sa.ip) = 4
    THEN FmtIpv4Addr(sa.ip) \o <<":">> \o FmtNumber(sa.port, 10)
    ELSE <<"[">> \o FmtIpv6Addr(sa.ip) \o <<"]", ":">> \o FmtNumber(sa.port, 10)

(***************************************************************************)
(* Addr as text: FromStr and Display.                                      *)
(***************************************************************************)
\* What the system's resolver answers for a host name: an error, or the
\* IP addresses found, in order.
NoAnswer == [ok |-> FALSE, err |-> "-", ips |-> <<>>]

NoAddrs == [ok |-> FALSE, err |-> "-", addrs |-> <<>>, asked |-> FALSE]

\* The resolver's answer for the host, each address with the port.
Resolve(port, answer) ==
    IF ~port.some THEN [NoAddrs EXCEPT !.err = "InvalidInput"]
    ELSE IF ~answer.ok THEN [NoAddrs EXCEPT !.err = answer.err, !.asked = TRUE]
    ELSE [NoAddrs EXCEPT !.ok = TRUE, !.asked = TRUE,
                         !.addrs = [k \in 1..Len(answer.ips) |->
                                        [ip |-> answer.ips[k], port |-> port.val]]]

\* A text is split at its last ":" into a host and a port.
Lookup(v, c, answer) ==
    IF c = 0 THEN [NoAddrs EXCEPT !.err = "InvalidInput"]
    ELSE Resolve(ReadNumber(Drop(v, c), 10, 0, TRUE, 65535), answer)

Candidates(sa, v, answer) ==
    IF sa.some THEN [NoAddrs EXCEPT !.ok = TRUE, !.addrs = <<sa.sa>>]
    ELSE Lookup(v, LastIndexOf(v, ":"), answer)

\* str::to_socket_addrs: a numeric address is its own single candidate;
\* for any other text the resolver is asked.
ToSocketAddrs(v, answer) == Candidates(ParseSocketAddr(v), v, answer)

StartsWith(v, pat) == Len(v) >= Len(pat) /\ Take(v, Len(pat)) = pat

IsPathTextSlashOnly(v) == StartsWith(v, <<"/">>)

\* v.starts_with('/') || v.starts_with("./")
IsPathText(v) == StartsWith(v, <<"/">>) \/ StartsWith(v, <<".", "/">>)

IterLast(addrs) ==
    IF addrs = <<>> THEN NoSockAddr ELSE [some |-> TRUE, sa |-> addrs[Len(addrs)]]

\* Iterator::next on the candidates
IterNext(addrs) ==
    IF addrs = <<>> THEN NoSockAddr ELSE [some |-> TRUE, sa |-> Head(addrs)]

\* What from_str returned, and whether the resolver was asked.
NoParse ==
    [done |-> FALSE, ok |-> FALSE, addr |-> NoAddr, err |-> "-", asked |-> FALSE]

\* Some(a) => Ok(Addr::Inet(a)), None => Err(AddrNotAvailable)
FirstOrNone(first, asked) ==
    IF first.some
    THEN [NoParse EXCEPT !.done = TRUE, !.ok = TRUE, !.asked = asked,
                         !.addr = AddrInet(first.sa)]
    ELSE [NoParse EXCEPT !.done = TRUE, !.err = "AddrNotAvailable", !.asked = asked]

\* v.to_socket_addrs()?.next()
FromCandidates(r) ==
    IF ~r.ok THEN [NoParse EXCEPT !.done = TRUE, !.err = r.err, !.asked = r.asked]
    ELSE FirstOrNone(IterNext(r.addrs), r.asked)

\* impl FromStr for Addr
FromStr(v, answer) ==
    IF IsPathText(v)
    THEN [NoParse EXCEPT !.done = TRUE, !.ok = TRUE, !.addr = AddrUnix(EncodeUtf8(v))]
    ELSE FromCandidates(ToSocketAddrs(v, answer))

\* impl fmt::Display for Addr
Display(a) ==
    IF a.tag = "Inet" THEN FmtSocketAddr(a.sa) ELSE ToStringLossy(a.path)


(***************************************************************************)
(* The sockets.                                                            *)
(*   fs       the socket files that exist in the filesystem, each with the *)
(*            socket that made it (ino: the Listener's slot, 0 for a       *)
(*            foreign client's)                                            *)
(*   lst      the live Listener values: the enum's variant, the family of  *)
(*            the handle it owns, the address the handle is bound to, and  *)
(*            the connections waiting to be accepted                       *)
(*   str      the Stream values and the connection ends behind them        *)
(*   res      what the last operation returned                             *)
(*   dropLog  what the last Listener drop did                              *)
(* A slot of lst or str is free again once its value is gone.              *)
(***************************************************************************)
VARIABLES fs, lst, str, res, dropLog,
          text, dns, parsed, shown, reparsed

sockVars == <<fs, lst, str, res, dropLog>>

addrVars == <<text, dns, parsed, shown, reparsed>>

vars == <<fs, lst, str, res, dropLog, text, dns, parsed, shown, reparsed>>

Bytes == {0, 255}

RECURSIVE SeqsUpTo(_, _)
SeqsUpTo(S, n) ==
    IF n = 0 THEN {<<>>}
    ELSE LET shorter == SeqsUpTo(S, n - 1)
         IN  shorter \cup {Append(q, x) : q \in {r \in shorter : Len(r) = n - 1}, x \in S}

PathA == EncodeUtf8(<<"/", "a">>)

PathC == EncodeUtf8(<<".", "/", "c">>)

\* The paths Listeners are bound to.
ListenPaths == {PathA}

SockA == [ip |-> <<127, 0, 0, 1>>, port |-> 80]

\* The ephemeral endpoint the system gives a connecting TCP socket.
SockE == [ip |-> <<127, 0, 0, 1>>, port |-> 40000]

BindAddrs == {AddrInet(SockA)} \cup {AddrUnix(p) : p \in ListenPaths}

\* The local addresses a client made outside the crate may connect from.
ForeignLocals == {NativeUnnamed, NativePath(PathC), NativeAbstract(<<120>>)}

NoListener ==
    [st |-> "none", variant |-> "-", family |-> "-", bound |-> NoNative, queue |-> <<>>]

NoRead == [n |-> 0, cap |-> 0, done |-> FALSE]

NoStream ==
    [st |-> "none", variant |-> "-", family |-> "-", peer |-> 0,
     laddr |-> NoNative, paddr |-> NoAddr, rx |-> <<>>, wrShut |-> FALSE,
     todo |-> <<>>, want |-> <<>>, sent |-> <<>>, got |-> <<>>, lastRead |-> NoRead]

\* What an operation returned: for bind and connect, addr is the address it
\* was called with and id the slot of the value made; for accept, local_addr
\* and peer_addr, id is the Stream and addr the Addr returned.
NoRes == [op |-> "-", ok |-> TRUE, err |-> "-", id |-> 0, addr |-> NoAddr]

Ok(op, id, addr) == [op |-> op, ok |-> TRUE, err |-> "-", id |-> id, addr |-> addr]

Err(op, id, addr, e) == [op |-> op, ok |-> FALSE, err |-> e, id |-> id, addr |-> addr]

\* A Listener drop: the variant dropped, the path its handle was bound to,
\* what local_addr answered, whether a file was at the path, what
\* remove_file answered when called, and whether the drop panicked.
NoDrop ==
    [variant |-> "-", path |-> <<>>, query |-> "-", existed |-> FALSE,
     removal |-> "-", panicked |-> FALSE]

SockInit ==
    /\ fs = {}
    /\ lst = [l \in ListenerIds |-> NoListener]
    /\ str = [s \in StreamIds |-> NoStream]
    /\ res = NoRes
    /\ dropLog = NoDrop

AddrIdle ==
    /\ text = <<>>
    /\ dns = NoAnswer
    /\ parsed = NoParse
    /\ shown = <<>>
    /\ reparsed = NoParse

Init == SockInit /\ AddrIdle

Alive(l) == lst[l].st = "alive"

Open(s) == str[s].st = "open"

\* The lowest free Listener slot, and the connection's slots when free.
FreeListener(l) ==
    lst[l].st = "none" /\ \A k \in ListenerIds : k < l => lst[k].st # "none"

FreeConn(c) == c = 1 /\ str[1].st = "none" /\ str[2].st = "none"

\* Whether a file exists at the path.
Exists(files, p) == \E f \in files : f.path = p

(***************************************************************************)
(* Listener::bind                                                          *)
(***************************************************************************)
BindRefusedUnixNever(files, ports, a) ==
    IF a.tag = "Inet" THEN a.sa \in ports ELSE FALSE

\* Whether the system refuses the bind: the TCP endpoint is taken, or a file
\* exists at the path.
BindRefused(files, ports, a) ==
    IF a.tag = "Inet" THEN a.sa \in ports ELSE Exists(files, a.path)

\* The variant bind wraps the new handle in: Listener::Inet or Listener::Unix.
ListenerVariant(a) == IF a.tag = "Inet" THEN "Inet" ELSE "Unix"

PortsInUse == {lst[l].bound.sa : l \in {k \in ListenerIds : Alive(k) /\ lst[k].family = "tcp"}}

Bind(l, a) ==
    /\ FreeListener(l)
    /\ IF BindRefused(fs, PortsInUse, a)
       THEN /\ res' = Err("bind", 0, a, "AddrInUse")
            /\ UNCHANGED <<fs, lst>>
       ELSE /\ lst' = [lst EXCEPT ![l] =
                          [st |-> "alive", variant |-> ListenerVariant(a),
                           family |-> IF a.tag = "Inet" THEN "tcp" ELSE "unix",
                           bound |-> IF a.tag = "Inet" THEN NativeInet(a.sa)
                                     ELSE NativePath(a.path),
                           queue |-> <<>>]]
            /\ fs' = IF a.tag = "Inet" THEN fs
                     ELSE fs \cup {[path |-> a.path, ino |-> l]}
            /\ res' = Ok("bind", l, a)
    /\ UNCHANGED <<str, dropLog>>
    /\ UNCHANGED addrVars

(***************************************************************************)
(* Stream::connect, and a Stream made from a socket connected elsewhere    *)
(***************************************************************************)
\* The listening socket a connect to a reaches: for a path, the socket whose
\* file is at the path.
Target(a) ==
    IF a.tag = "Inet"
    THEN {l \in ListenerIds : Alive(l) /\ lst[l].bound = NativeInet(a.sa)}
    ELSE {l \in ListenerIds : Alive(l) /\ lst[l].family = "unix"
                                /\ [path |-> a.path, ino |-> l] \in fs}

\* The variant connect wraps the new handle in: Stream::Inet or Stream::Unix.
StreamVariant(a) == IF a.tag = "Inet" THEN "Inet" ELSE "Unix"

\* The two ends of a new connection to Listener l: the connecting end, open,
\* and the end waiting in l's queue.
ClientEnd(c, l, variant, local) ==
    [NoStream EXCEPT !.st = "open", !.variant = variant, !.family = lst[l].family,
                     !.peer = c + 1, !.laddr = local]

QueuedEnd(c, l) ==
    [NoStream EXCEPT !.st = "queued", !.family = lst[l].family, !.peer = c,
                     !.laddr = lst[l].bound]

Connect(c, a) ==
    /\ FreeConn(c)
    /\ IF Target(a) = {}
       THEN /\ res' = Err("connect", 0, a,
                          IF a.tag = "Unix" /\ ~Exists(fs, a.path) THEN "NotFound"
                          ELSE "ConnectionRefused")
            /\ UNCHANGED <<str, lst>>
       ELSE LET l == CHOOSE k \in Target(a) : TRUE
                local == IF a.tag = "Inet" THEN NativeInet(SockE) ELSE NativeUnnamed
            IN  /\ str' = [str EXCEPT ![c] = ClientEnd(c, l, StreamVariant(a), local),
                                      ![c + 1] = QueuedEnd(c, l)]
                /\ lst' = [lst EXCEPT ![l].queue = Append(@, c + 1)]
                /\ res' = Ok("connect", c, a)
    /\ UNCHANGED <<fs, dropLog>>
    /\ UNCHANGED addrVars

\* impl From<UnixStream> for Stream: a Unix socket bound and connected outside
\* the crate, from local address na, wrapped as Stream::Unix.
FromUnixStream(c, l, na) ==
    /\ FreeConn(c)
    /\ Alive(l) /\ lst[l].family = "unix"
    /\ [path |-> lst[l].bound.path, ino |-> l] \in fs
    /\ na.kind = "pathname" => ~Exists(fs, na.path)
    /\ str' = [str EXCEPT ![c] = ClientEnd(c, l, "Unix", na), ![c + 1] = QueuedEnd(c, l)]
    /\ lst' = [lst EXCEPT ![l].queue = Append(@, c + 1)]
    /\ fs' = IF na.kind = "pathname" THEN fs \cup {[path |-> na.path, ino |-> 0]} ELSE fs
    /\ res' = Ok("from", c, NoAddr)
    /\ UNCHANGED dropLog
    /\ UNCHANGED addrVars

(***************************************************************************)
(* Listener::accept                                                        *)
(***************************************************************************)
AcceptedVariantSwapped(l) == IF lst[l].variant = "Inet" THEN "Unix" ELSE "Inet"

\* The arm accept takes wraps the new handle as Stream::Inet or Stream::Unix.
AcceptedVariant(l) == IF lst[l].variant = "Inet" THEN "Inet" ELSE "Unix"

\* The Addr accept returns for the peer's native address a.
AcceptedAddr(l, a) ==
    IF lst[l].variant = "Inet" THEN FromInetSocketAddr(a.sa) ELSE FromUnixSocketAddr(a)

Accept(l) ==
    /\ Alive(l)
    /\ lst[l].queue # <<>>
    /\ LET k == Head(lst[l].queue)
           peer == AcceptedAddr(l, str[str[k].peer].laddr)
       IN  /\ str' = [str EXCEPT ![k].st = "open", ![k].variant = AcceptedVariant(l),
                                 ![k].paddr = peer]
           /\ lst' = [lst EXCEPT ![l].queue = Tail(@)]
           /\ res' = Ok("accept", k, peer)
    /\ UNCHANGED <<fs, dropLog>>
    /\ UNCHANGED addrVars

(***************************************************************************)
(* Stream::local_addr, Stream::peer_addr.  q is the outcome of the system's *)
(* query (getsockname, getpeername).                                       *)
(***************************************************************************)
\* The Addr the Stream's arm makes of native address a.
StreamAddr(s, a) ==
    IF str[s].variant = "Inet" THEN FromInetSocketAddr(a.sa) ELSE FromUnixSocketAddr(a)

LocalAddr(s, q) ==
    /\ Open(s)
    /\ res' = IF q = "err" THEN Err("local_addr", s, NoAddr, "Other")
              ELSE Ok("local_addr", s, StreamAddr(s, str[s].laddr))
    /\ UNCHANGED <<fs, lst, str, dropLog>>
    /\ UNCHANGED addrVars

PeerAddr(s, q) ==
    /\ Open(s)
    /\ res' = IF q = "err" THEN Err("peer_addr", s, NoAddr, "Other")
              ELSE Ok("peer_addr", s, StreamAddr(s, str[str[s].peer].laddr))
    /\ UNCHANGED <<fs, lst, str, dropLog>>
    /\ UNCHANGED addrVars

(***************************************************************************)
(* AsyncRead / AsyncWrite for Stream.  Each poll is handed to the handle   *)
(* of the Stream's variant; a poll that would return Pending is no step.   *)
(* A caller's write loop (write_all) holds the bytes not yet accepted in   *)
(* todo; want, sent and got record what was offered, accepted and read.    *)
(***************************************************************************)
Payloads == SeqsUpTo(Bytes, MaxLen)

ReadCaps == 0..MaxRead

\* Whether the peer's end will send no more: it shut its write side down or
\* was closed.
PeerClosed(s) == str[str[s].peer].wrShut \/ str[str[s].peer].st = "dropped"

\* A caller starts writing data with a loop over poll_write; limit bounds
\* what the two ends of a connection are given to write in all.
WriteAll(s, data, limit) ==
    /\ Open(s)
    /\ str[s].todo = <<>>
    /\ ~str[s].wrShut
    /\ Len(str[s].want) + Len(str[str[s].peer].want) + Len(data) <= limit
    /\ str' = [str EXCEPT ![s].want = @ \o data, ![s].todo = data]
    /\ res' = Ok("io", 0, NoAddr)
    /\ UNCHANGED <<fs, lst, dropLog>>
    /\ UNCHANGED addrVars

DeliverReversed(rx, chunk) == chunk \o rx

\* The peer's receive buffer after the system accepted chunk.
Deliver(rx, chunk) == rx \o chunk

PollWrite(s) ==
    /\ Open(s)
    /\ str[s].todo # <<>>
    /\ LET p == str[s].peer
       IN  IF str[p].st = "dropped"
           THEN /\ str' = [str EXCEPT ![s].todo = <<>>]
                /\ res' = Err("io", 0, NoAddr, "BrokenPipe")
           ELSE /\ Len(str[p].rx) < BufCap
                /\ \E n \in 1..Min(BufCap - Len(str[p].rx), Len(str[s].todo)) :
                      str' = [str EXCEPT
                                 ![p].rx = Deliver(@, Take(str[s].todo, n)),
                                 ![s].todo = Drop(@, n),
                                 ![s].sent = @ \o Take(str[s].todo, n)]
                /\ res' = Ok("io", 0, NoAddr)
    /\ UNCHANGED <<fs, lst, dropLog>>
    /\ UNCHANGED addrVars

\* The k bytes a read puts into the caller's buffer.
Filled(rx, k) == Take(rx, k)

PollRead(s, cap) ==
    /\ Open(s)
    /\ IF str[s].rx # <<>>
       THEN \E k \in Min(1, cap)..Min(cap, Len(str[s].rx)) :
               str' = [str EXCEPT
                          ![s].got = @ \o Filled(str[s].rx, k),
                          ![s].rx = Drop(@, k),
                          ![s].lastRead = [n |-> k, cap |-> cap, done |-> TRUE]]
       ELSE /\ PeerClosed(s)
            /\ str' = [str EXCEPT ![s].lastRead = [n |-> 0, cap |-> cap, done |-> TRUE]]
    /\ res' = Ok("io", 0, NoAddr)
    /\ UNCHANGED <<fs, lst, dropLog>>
    /\ UNCHANGED addrVars

PollFlush(s) ==
    /\ Open(s)
    /\ res' = Ok("io", 0, NoAddr)
    /\ UNCHANGED <<fs, lst, str, dropLog>>
    /\ UNCHANGED addrVars

ShutdownDiscarding(ends, s) ==
    [ends EXCEPT ![s].wrShut = TRUE, ![ends[s].peer].rx = <<>>]

\* The ends after s shut its write side down: what s sent stays on its way
\* to the peer.
Shutdown(ends, s) == [ends EXCEPT ![s].wrShut = TRUE]

\* The caller owns the Stream mutably, so no write loop is under way.
PollShutdown(s) ==
    /\ Open(s)
    /\ str[s].todo = <<>>
    /\ str' = Shutdown(str, s)
    /\ res' = Ok("io", 0, NoAddr)
    /\ UNCHANGED <<fs, lst, dropLog>>
    /\ UNCHANGED addrVars

(***************************************************************************)
(* Dropping a Stream closes its handle.  The end stays behind for its peer *)
(* as closed; a connection with both ends closed is gone.                  *)
(***************************************************************************)
Closed(end) ==
    [end EXCEPT !.st = "dropped", !.variant = "-", !.rx = <<>>, !.todo = <<>>,
                !.got = <<>>, !.paddr = NoAddr, !.lastRead = NoRead]

\* The ends after the ends in S are closed.
CloseEnds(S) ==
    LET after == [s \in StreamIds |-> IF s \in S THEN Closed(str[s]) ELSE str[s]]
    IN  IF \A s \in StreamIds : after[s].st \in {"dropped", "none"}
        THEN [s \in StreamIds |-> NoStream]
        ELSE after

DropStream(s) ==
    /\ Open(s)
    /\ str' = CloseEnds({s})
    /\ res' = Ok("drop_stream", 0, NoAddr)
    /\ UNCHANGED <<fs, lst, dropLog>>
    /\ UNCHANGED addrVars

(***************************************************************************)
(* impl Drop for Listener.  q is the outcome of local_addr (getsockname).  *)
(***************************************************************************)
RemoveFileNothing(files, p) == files

\* std::fs::remove_file on a path that exists.
RemoveFile(files, p) == {f \in files : f.path # p}

DropPlanRemovalIgnored(l, q) ==
    IF lst[l].variant # "Unix" THEN [removal |-> "-", panicked |-> FALSE]
    ELSE IF q # "ok" THEN [removal |-> "-", panicked |-> FALSE]
    ELSE IF ~AsPathname(lst[l].bound).some THEN [removal |-> "-", panicked |-> FALSE]
    ELSE IF Exists(fs, AsPathname(lst[l].bound).path)
    THEN [removal |-> "ok", panicked |-> FALSE]
    ELSE [removal |-> "err", panicked |-> FALSE]

\* What the drop does for Listener l: nothing unless it is Listener::Unix,
\* local_addr answered Ok and the address has a pathname; then remove_file,
\* which fails when no file is at the path, and the unwrap of a failure
\* panics.
DropPlan(l, q) ==
    IF lst[l].variant # "Unix" THEN [removal |-> "-", panicked |-> FALSE]
    ELSE IF q # "ok" THEN [removal |-> "-", panicked |-> FALSE]
    ELSE IF ~AsPathname(lst[l].bound).some THEN [removal |-> "-", panicked |-> FALSE]
    ELSE IF Exists(fs, AsPathname(lst[l].bound).path)
    THEN [removal |-> "ok", panicked |-> FALSE]
    ELSE [removal |-> "err", panicked |-> TRUE]

DropListener(l, q) ==
    /\ Alive(l)
    /\ LET plan == DropPlan(l, q)
           p == lst[l].bound.path
       IN  /\ fs' = IF plan.removal = "ok" THEN RemoveFile(fs, p) ELSE fs
           /\ dropLog' = [variant |-> lst[l].variant, path |-> p,
                          query |-> IF lst[l].variant = "Unix" THEN q ELSE "-",
                          existed |-> Exists(fs, p),
                          removal |-> plan.removal, panicked |-> plan.panicked]
    /\ lst' = [lst EXCEPT ![l] = NoListener]
    /\ str' = CloseEnds({lst[l].queue[i] : i \in DOMAIN lst[l].queue})
    /\ res' = Ok("drop_listener", 0, NoAddr)
    /\ UNCHANGED addrVars

(***************************************************************************)
(* The environment: another process removes a socket file.                 *)
(***************************************************************************)
ExternalUnlink(p) ==
    /\ Exists(fs, p)
    /\ fs' = {f \in fs : f.path # p}
    /\ res' = Ok("unlink", 0, NoAddr)
    /\ UNCHANGED <<lst, str, dropLog>>
    /\ UNCHANGED addrVars

(***************************************************************************)
(* Addr as text: the texts parsed, the resolver's answers, and the three   *)
(* steps parse, format and parse again.                                    *)
(*   text      the text given to from_str                                  *)
(*   dns       what the resolver answers when asked                        *)
(*   parsed    what from_str returned for text                             *)
(*   shown     the Display of the parsed Addr                              *)
(*   reparsed  what from_str returned for shown                            *)
(***************************************************************************)
RECURSIVE Cat(_)
Cat(parts) == IF parts = <<>> THEN <<>> ELSE Head(parts) \o Cat(Tail(parts))

\* Short texts over path, host and port characters.
ShortTexts == SeqsUpTo({"/", ".", ":", "1", "a", "U+00E9"}, MaxTextLen)

OctetTexts ==
    {<<"0">>, <<"1">>, <<"1", "2", "7">>, <<"2", "5", "5">>, <<"2", "5", "6">>,
     <<"0", "1">>}

PortTexts ==
    {<<>>, <<"0">>, <<"8", "0">>, <<"0", "8", "0">>, <<"6", "5", "5", "3", "5">>,
     <<"6", "5", "5", "3", "6">>}

\* IPv4 endpoint texts, valid and not.
V4Texts ==
    {Cat(<<a, <<".", "0", ".", "0", ".">>, d, <<":">>, p>>) :
        a \in OctetTexts, d \in OctetTexts, p \in PortTexts}
    \cup {<<"1", ".", "2", ".", "3", ":", "8", "0">>,
          <<"1", ".", "2", ".", "3", ".", "4">>,
          <<"1", ".", "2", ".", "3", ".", "4", ".", "5", ":", "8", "0">>}

GroupTexts == {<<"0">>, <<"1">>, <<"0", "0", "F", "f">>}

\* IPv6 addresses: a "::" between up to MaxGroups groups on either side,
\* eight groups in full, and the forms with an IPv4 part or a misplaced "::".
V6Bodies ==
    {Cat(<<Join(h, <<":">>), <<":", ":">>, Join(t, <<":">>)>>) :
        h \in SeqsUpTo(GroupTexts, MaxGroups), t \in SeqsUpTo(GroupTexts, MaxGroups)}
    \cup {Join(g, <<":">>) : g \in [1..8 -> {<<"0">>, <<"1">>}]}
    \cup {<<":", ":", "f", "f", "f", "f", ":", "1", ".", "2", ".", "3", ".", "4">>,
          <<":", ":", "F", "F", "F", "F", ":", "0", ":", "1">>,
          <<":", ":", "1", ".", "2", ".", "3", ".", "4">>,
          <<"1", ".", "2", ".", "3", ".", "4", ":", ":">>,
          <<"1", ":", "1", ":", "1", ":", "1", ":", "1", ":", "1", ":", "1", ".", "2", ".", "3", ".", "4">>,
          <<"1", ":", "1", ":", "1", ":", "1", ":", "1", ":", "1", ":", "1", ":", ":">>,
          <<"1", ":", "1", ":", "1", ":", "1", ":", "1", ":", "1", ":", "1", ":", "1", ":", ":">>,
          <<":", ":", "1", ":", "1", ":", "1", ":", "1", ":", "1", ":", "1", ":", "1", ":", "1">>,
          <<"1", ":", ":", "1", ":", ":", "1">>,
          <<"1", "0", "0", "0", "0", ":", ":">>}

V6Texts ==
    {Cat(<<<<"[">>, b, <<"]", ":">>, p>>) :
        b \in V6Bodies, p \in {<<"8", "0">>, <<"0", "0", "8", "0">>}}
    \cup {<<"[", ":", ":", "1", "]">>, <<"[", ":", ":", "1", "]", "8", "0">>,
          <<":", ":", "1", ":", "8", "0">>}

Texts == ShortTexts \cup V4Texts \cup V6Texts

IpA == <<10, 0, 0, 1>>

IpB == <<0, 0, 0, 0, 0, 0, 0, 1>>

\* The resolver fails, or finds up to MaxAnswers addresses.
Answers ==
    {[NoAnswer EXCEPT !.err = "LookupFailed"]}
    \cup {[NoAnswer EXCEPT !.ok = TRUE, !.ips = ips] : ips \in SeqsUpTo({IpA, IpB}, MaxAnswers)}

AddrInit ==
    /\ SockInit
    /\ text \in Texts
    /\ dns \in Answers
    /\ parsed = NoParse
    /\ shown = <<>>
    /\ reparsed = NoParse

\* text.parse::<Addr>()
ParseText ==
    /\ ~parsed.done
    /\ parsed' = FromStr(text, dns)
    /\ UNCHANGED <<text, dns, shown, reparsed>>
    /\ UNCHANGED sockVars

\* addr.to_string()
FormatAddr ==
    /\ parsed.done /\ parsed.ok
    /\ shown = <<>>
    /\ shown' = Display(parsed.addr)
    /\ UNCHANGED <<text, dns, parsed, reparsed>>
    /\ UNCHANGED sockVars

\* shown.parse::<Addr>(), whatever the resolver would answer by then.
ParseShown ==
    /\ shown # <<>>
    /\ ~reparsed.done
    /\ \E answer \in Answers : reparsed' = FromStr(shown, answer)
    /\ UNCHANGED <<text, dns, parsed, shown>>
    /\ UNCHANGED sockVars

(***************************************************************************)
(* The next-state relations.  Spec is the crate on a system whose address  *)
(* queries succeed and where nothing else touches the socket files; a      *)
(* connection is given LifeLen bytes to carry.  EnvSpec is the life of     *)
(* Listeners and Streams on a system whose queries may fail and where      *)
(* another process may unlink a socket file.  XferSpec is the traffic over *)
(* connections: callers that finish their write loops and keep reading.    *)
(* AddrSpec is from_str and Display applied to each text.                  *)
(***************************************************************************)
Life(Q) ==
    \/ \E l \in ListenerIds, a \in BindAddrs : Bind(l, a)
    \/ \E c \in StreamIds, a \in BindAddrs : Connect(c, a)
    \/ \E c \in StreamIds, l \in ListenerIds, na \in ForeignLocals : FromUnixStream(c, l, na)
    \/ \E l \in ListenerIds : Accept(l)
    \/ \E s \in StreamIds, q \in Q : LocalAddr(s, q)
    \/ \E s \in StreamIds, q \in Q : PeerAddr(s, q)
    \/ \E s \in StreamIds : DropStream(s)
    \/ \E l \in ListenerIds, q \in Q : DropListener(l, q)

Io(D, limit, caps) ==
    \/ \E s \in StreamIds, d \in D : WriteAll(s, d, limit)
    \/ \E s \in StreamIds : PollWrite(s)
    \/ \E s \in StreamIds, cap \in caps : PollRead(s, cap)
    \/ \E s \in StreamIds : PollFlush(s)
    \/ \E s \in StreamIds : PollShutdown(s)

Next == Life({"ok"}) \/ Io(SeqsUpTo({0}, LifeLen), LifeLen, {1})

Spec == Init /\ [][Next]_vars

EnvNext ==
    \/ Life({"ok", "err"})
    \/ \E p \in ListenPaths : ExternalUnlink(p)

EnvSpec == Init /\ [][EnvNext]_vars

XferNext ==
    \/ \E l \in ListenerIds, a \in BindAddrs : Bind(l, a)
    \/ \E c \in StreamIds, a \in BindAddrs : Connect(c, a)
    \/ \E l \in ListenerIds : Accept(l)
    \/ Io(Payloads, MaxLen, ReadCaps)

\* A write loop goes on until its bytes are accepted, and a reader goes on
\* reading into a buffer that has room.
XferSpec ==
    /\ Init
    /\ [][XferNext]_vars
    /\ \A s \in StreamIds :
          /\ WF_vars(PollWrite(s))
          /\ WF_vars(\E cap \in ReadCaps \ {0} : PollRead(s, cap))

AddrNext == ParseText \/ FormatAddr \/ ParseShown

AddrSpec == AddrInit /\ [][AddrNext]_vars

(***************************************************************************)
(* Claims about the life of Listeners and Streams.                         *)
(***************************************************************************)
Paths(files) == {f.path : f \in files}

UnixListeners == {l \in ListenerIds : Alive(l) /\ lst[l].variant = "Unix"}

C2_EveryCleanupFailureFatal ==
    (dropLog.variant = "Unix" /\ (dropLog.query = "err" \/ dropLog.removal = "err"))
        => dropLog.panicked

\* C2 as amended: the drop of a Unix Listener panics exactly when local_addr
\* answered and no file was at the path for remove_file to remove; when
\* local_addr fails the drop neither panics nor removes anything.
C2_OnlyRemovalFailureFatal ==
    dropLog.variant = "Unix" =>
        /\ dropLog.panicked <=> (dropLog.query = "ok" /\ ~dropLog.existed)
        /\ (dropLog.query = "err" /\ res.op = "drop_listener")
              => (Exists(fs, dropLog.path) <=> dropLog.existed)

\* A Unix Listener whose file another process had removed was dropped, and
\* the drop panicked.
C2_Witness ==
    /\ res.op = "drop_listener"
    /\ dropLog.variant = "Unix"
    /\ dropLog.query = "ok"
    /\ ~dropLog.existed
    /\ dropLog.panicked

\* The placeholder path, byte by byte: "unnamed".
Placeholder == <<117, 110, 110, 97, 109, 101, 100>>

\* The Addr a native Unix address stands for.
ExpectedUnixAddr(a) ==
    IF a.kind = "pathname" THEN [tag |-> "Unix", sa |-> NoSock, path |-> a.path]
    ELSE [tag |-> "Unix", sa |-> NoSock, path |-> Placeholder]

\* C8: every native Unix address turned into an Addr, by accept for the
\* peer and by local_addr and peer_addr, becomes Local("unnamed") when it has
\* no pathname and Local(its path) when it has one; accept on a Unix Listener
\* returns an Addr for every connection, and a query that the system answered
\* never fails in the conversion.
C8_UnnamedBecomesPlaceholder ==
    /\ \A s \in StreamIds :
          (Open(s) /\ str[s].family = "unix" /\ str[s].paddr # NoAddr)
              => str[s].paddr = ExpectedUnixAddr(str[str[s].peer].laddr)
    /\ (res.op = "accept" /\ str[res.id].family = "unix")
          => (res.ok /\ res.addr = ExpectedUnixAddr(str[str[res.id].peer].laddr))
    /\ (res.op = "local_addr" /\ res.ok /\ str[res.id].family = "unix")
          => res.addr = ExpectedUnixAddr(str[res.id].laddr)
    /\ (res.op = "peer_addr" /\ res.ok /\ str[res.id].family = "unix")
          => res.addr = ExpectedUnixAddr(str[str[res.id].peer].laddr)

\* accept returned the placeholder for a peer that never bound a path.
C8_Witness ==
    /\ res.op = "accept"
    /\ str[res.id].family = "unix"
    /\ str[str[res.id].peer].laddr.kind = "unnamed"
    /\ res.addr.path = Placeholder

\* The variant that goes with a handle's family.
VariantOf(family) == IF family = "tcp" THEN "Inet" ELSE "Unix"

\* C9: the variant follows the address through every operation and never
\* changes while the value lives: bind and connect make the variant of the
\* Addr given, accept makes a Stream and an Addr of the Listener's variant,
\* local_addr and peer_addr return an Addr of the Stream's variant, and no
\* operation changes the variant of a live Listener or Stream.
C9_VariantPreserved ==
    [][/\ \A l \in ListenerIds :
             lst'[l].st = "alive" => lst'[l].variant = VariantOf(lst'[l].family)
       /\ \A s \in StreamIds :
             str'[s].st = "open" => str'[s].variant = VariantOf(str'[s].family)
       /\ (res'.op = "bind" /\ res'.ok) => lst'[res'.id].variant = res'.addr.tag
       /\ (res'.op = "connect" /\ res'.ok) => str'[res'.id].variant = res'.addr.tag
       /\ res'.op = "accept" =>
             /\ str'[res'.id].variant = res'.addr.tag
             /\ \E l \in ListenerIds :
                   /\ Alive(l) /\ lst[l].queue # <<>> /\ Head(lst[l].queue) = res'.id
                   /\ str'[res'.id].variant = lst[l].variant
       /\ (res'.op \in {"local_addr", "peer_addr"} /\ res'.ok)
             => res'.addr.tag = str'[res'.id].variant
       /\ \A l \in ListenerIds :
             (Alive(l) /\ lst'[l].st = "alive") => lst'[l].variant = lst[l].variant
       /\ \A s \in StreamIds :
             (Open(s) /\ str'[s].st = "open") => str'[s].variant = str[s].variant]_vars

\* An accepted Unix Stream was asked for its peer's address.
C9_Witness ==
    /\ res.op = "peer_addr"
    /\ res.ok
    /\ str[res.id].paddr # NoAddr
    /\ str[res.id].variant = "Unix"
    /\ res.addr.tag = "Unix"

\* C10: a bind that fails changes nothing: no file, no Listener.  When
\* bind(Local(p)) fails, p exists before and after; a live Unix Listener is
\* the one a connect to its path reaches; and a path goes away only in the
\* drop of the Listener bound to it.
C10_FailedBindNoEffect ==
    [][/\ (res'.op = "bind" /\ ~res'.ok)
             => /\ fs' = fs /\ lst' = lst /\ str' = str /\ dropLog' = dropLog
                /\ res'.addr.tag = "Unix" => Exists(fs', res'.addr.path)
       /\ \A l \in UnixListeners :
             {k \in ListenerIds : Alive(k) /\ lst[k].family = "unix"
                                    /\ [path |-> lst[l].bound.path, ino |-> k] \in fs} = {l}
       /\ \A p \in Paths(fs) \ Paths(fs') :
             \E l \in UnixListeners :
                /\ lst[l].bound.path = p
                /\ lst'[l].st # "alive"
                /\ res'.op = "drop_listener"]_vars

\* bind(Local(p)) failed while a Listener bound to p is alive.
C10_Witness ==
    /\ res.op = "bind"
    /\ ~res.ok
    /\ res.addr.tag = "Unix"
    /\ \E l \in UnixListeners : lst[l].bound.path = res.addr.path

(***************************************************************************)
(* Claims about the bytes of a connection.                                 *)
(***************************************************************************)
\* The connected pairs: writer w and reader r, both open Streams.
Pairs == {<<w, r>> \in StreamIds \X StreamIds : Open(w) /\ Open(r) /\ str[w].peer = r}

\* The reader's last read ended the stream: no bytes into a buffer with room.
SawEof(r) ==
    str[r].lastRead.done /\ str[r].lastRead.n = 0 /\ str[r].lastRead.cap > 0

\* C6: over a connected pair, of either variant, what the reader has read is
\* at every moment a prefix of what the writer's loops were given, and once
\* the loops have run it is all of it, in order, however the writes and
\* reads were cut up.
C6_BytesArriveInOrder ==
    /\ [](\A pr \in Pairs : IsPrefix(str[pr[2]].got, str[pr[1]].want))
    /\ <>[](\A pr \in Pairs : str[pr[2]].got = str[pr[1]].want)

\* Two different bytes went through a buffer that holds fewer than were
\* written, and arrived.
C6_Witness ==
    \E pr \in Pairs :
       /\ Len(str[pr[1]].want) > BufCap
       /\ str[pr[1]].want[1] # str[pr[1]].want[2]
       /\ str[pr[2]].got = str[pr[1]].want

\* C7: the reader sees the end of the stream, a read of no bytes, only once
\* the writer has shut down and the reader has read every byte the writer
\* sent; and after the shutdown a reader that goes on reading does see it.
C7_EofAfterAllBytes ==
    /\ [](\A pr \in Pairs :
            SawEof(pr[2]) => (str[pr[1]].wrShut /\ str[pr[2]].got = str[pr[1]].sent))
    /\ \A w \in StreamIds, r \in StreamIds :
          (<<w, r>> \in Pairs /\ str[w].wrShut) ~> (<<w, r>> \in Pairs /\ SawEof(r))

\* The reader read what was sent and then the end of the stream.
C7_Witness ==
    \E pr \in Pairs :
       /\ str[pr[1]].wrShut
       /\ str[pr[1]].sent # <<>>
       /\ str[pr[2]].got = str[pr[1]].sent
       /\ SawEof(pr[2])

(***************************************************************************)
(* Claims about Addr as text.                                              *)
(***************************************************************************)
\* The text begins with "/" or with "./".
BeginsAsPath ==
    \/ Len(text) >= 1 /\ text[1] = "/"
    \/ Len(text) >= 2 /\ text[1] = "." /\ text[2] = "/"

\* C3: a text that begins with "/" or "./" parses to the Unix address whose
\* path is the whole text, byte for byte, whatever the resolver would have
\* answered and without asking it; any other text parses to no Unix address.
C3_PathTextIsLocalVerbatim ==
    parsed.done =>
        IF BeginsAsPath
        THEN /\ parsed.ok
             /\ parsed.addr.tag = "Unix"
             /\ parsed.addr.path = EncodeUtf8(text)
             /\ ToStringLossy(parsed.addr.path) = text
             /\ ~parsed.asked
        ELSE parsed.addr.tag # "Unix"

\* A "./" text with a non-ASCII character was parsed while the resolver was
\* failing.
C3_Witness ==
    /\ parsed.done
    /\ text = <<".", "/", "U+00E9">>
    /\ ~dns.ok

\* C4: for a text that is no path, from_str returns the first of the
\* candidates to_socket_addrs yields, AddrNotAvailable when there are none,
\* and the error of to_socket_addrs when it fails; when the resolver was
\* asked, that is the first address it found with the port of the text, or
\* the resolver's own error.
C4_FirstCandidateOrError ==
    (parsed.done /\ ~BeginsAsPath) =>
        LET r == ToSocketAddrs(text, dns)
        IN  /\ (r.ok /\ r.addrs # <<>>) =>
                   (parsed.ok /\ parsed.addr = AddrInet(r.addrs[1]))
            /\ (r.ok /\ r.addrs = <<>>) =>
                   (~parsed.ok /\ parsed.err = "AddrNotAvailable")
            /\ ~r.ok => (~parsed.ok /\ parsed.err = r.err)
            /\ parsed.asked =>
                   /\ (dns.ok /\ dns.ips # <<>>) =>
                          (parsed.ok /\ parsed.addr.tag = "Inet"
                                     /\ parsed.addr.sa.ip = dns.ips[1])
                   /\ (dns.ok /\ dns.ips = <<>>) =>
                          (~parsed.ok /\ parsed.err = "AddrNotAvailable")
                   /\ ~dns.ok => (~parsed.ok /\ parsed.err = dns.err)

\* A host name was parsed for which the resolver found two different
\* addresses.
C4_Witness ==
    /\ parsed.done /\ parsed.asked
    /\ dns.ok /\ Len(dns.ips) = 2 /\ dns.ips[1] # dns.ips[2]

\* C5: a text beginning with "/" is shown again exactly as it was given; a
\* numeric ip:port text is shown in a form that is numeric too, that shows
\* as itself, and that parses to the Addr the text parsed to.
C5_ParseFormatRoundTrip ==
    /\ (shown # <<>> /\ Len(text) >= 1 /\ text[1] = "/") => shown = text
    /\ (shown # <<>> /\ ParseSocketAddr(text).some) =>
           /\ parsed.addr = AddrInet(ParseSocketAddr(text).sa)
           /\ ParseSocketAddr(shown).some
           /\ Display(AddrInet(ParseSocketAddr(shown).sa)) = shown
           /\ reparsed.done => (reparsed.ok /\ reparsed.addr = parsed.addr)

\* An IPv6 endpoint text that is not in canonical form went round.
C5_Witness ==
    /\ reparsed.done
    /\ ParseSocketAddr(text).some
    /\ Len(parsed.addr.sa.ip) = 8
    /\ shown # text

=============================================================================
